---- MODULE Spec2Model ----
(***************************************************************************)
(* tgo: a wrapper around "go test -json".  The driver (run) scans the      *)
(* JSON event stream of the supervised process, stores the events per      *)
(* (package, test) key, prints a unit's detail when a requested result     *)
(* arrives, and at end of stream prints the remaining units, the           *)
(* summaries and a counter line; it then waits for the process.            *)
(*                                                                         *)
(* Strings are sequences of tokens: a token is one character, or a         *)
(* literal chunk that the program only ever compares as a whole.  Times    *)
(* are integers, elapsed seconds are integers in milliseconds.             *)
(***************************************************************************)
EXTENDS Integers, Sequences, FiniteSets, TLC

\* ------------------------------------------------------------------ bounds

\* Number of lines the scanner reads at most in one run.
MaxLines == 2

\* Number of events appended to a store that is exercised on its own.
MaxEvents == 3

\* Largest exit code of the supervised process.
MaxExit == 2

\* ------------------------------------------------------ actions and status

ActionRun == "run"
ActionPause == "pause"
ActionCont == "cont"
ActionPass == "pass"
ActionBench == "bench"
ActionFail == "fail"
ActionOutput == "output"
ActionSkip == "skip"

EndingActions == <<ActionFail, ActionSkip, ActionPass, ActionBench>>

StatusPass == "pass"
StatusFail == "fail"
StatusSkip == "skip"
StatusBench == "bench"
StatusNone == "none"

AllStatuses == {StatusBench, StatusPass, StatusSkip, StatusNone, StatusFail}

\* Status.IsAction: the status that an ending action stands for.
IsAction(s, a) ==
  CASE a = ActionBench -> s = StatusBench
    [] a = ActionPass -> s = StatusPass
    [] a = ActionFail -> s = StatusFail
    [] a = ActionSkip -> s = StatusSkip
    [] OTHER -> FALSE

\* Statuses.Any: some status of ss is one of statuses.
StatusesAny(ss, statuses) == \E s \in ss : s \in statuses

\* Statuses.HasAction: some status of ss is the one of action.
HasAction(ss, action) == \E s \in ss : IsAction(s, action)

\* ------------------------------------------------------------------ strings

Range(s) == {s[i] : i \in 1..Len(s)}

IsSpace(c) == c \in {" ", "\t", "\n"}

HasPrefix(s, p) == Len(p) <= Len(s) /\ SubSeq(s, 1, Len(p)) = p

HasSuffix(s, p) == Len(p) <= Len(s) /\ SubSeq(s, Len(s) - Len(p) + 1, Len(s)) = p

\* strings.TrimLeft(s, " ")
TrimLeft(s) ==
  LET keep == {i \in 1..Len(s) : s[i] # " "}
  IN IF keep = {} THEN <<>>
     ELSE SubSeq(s, CHOOSE i \in keep : \A j \in keep : i <= j, Len(s))

\* strings.TrimSpace
TrimSpace(s) ==
  LET keep == {i \in 1..Len(s) : ~IsSpace(s[i])}
  IN IF keep = {} THEN <<>>
     ELSE SubSeq(s, CHOOSE i \in keep : \A j \in keep : i <= j,
                    CHOOSE i \in keep : \A j \in keep : i >= j)

TrimPrefix(s, p) == IF HasPrefix(s, p) THEN SubSeq(s, Len(p) + 1, Len(s)) ELSE s

TrimSuffix(s, p) == IF HasSuffix(s, p) THEN SubSeq(s, 1, Len(s) - Len(p)) ELSE s

Digit(n) == <<"0", "1", "2", "3", "4", "5", "6", "7", "8", "9">>[n + 1]

RECURSIVE Dec(_)
\* the decimal digits of a natural number
Dec(n) == IF n < 10 THEN <<Digit(n)>> ELSE Dec(n \div 10) \o <<Digit(n % 10)>>

\* fmt.Sprintf("%.2f", x) of x milliseconds: rounded to hundredths of a second
Fmt2(ms) ==
  LET h == (ms + 5) \div 10
  IN Dec(h \div 100) \o <<".">> \o <<Digit((h % 100) \div 10), Digit(h % 10)>>

\* ------------------------------------------------------------ events, keys

Ev(t, a, p, n, el, o) ==
  [Time |-> t, Action |-> a, Package |-> p, Test |-> n, Elapsed |-> el, Output |-> o]

\* the zero value of Event
ZeroEvent == Ev(0, "", <<>>, <<>>, 0, <<>>)

Key(e) == [Package |-> e.Package, Test |-> e.Test]

\* Key.String
KeyString(k) == IF k.Test = <<>> THEN k.Package ELSE k.Package \o <<".">> \o k.Test

RECURSIVE StatusLast(_)
\* the status of the last event with an ending action
StatusLast(es) ==
  IF es = <<>> THEN StatusNone
  ELSE LET e == es[Len(es)]
       IN IF e.Action \in {ActionFail, ActionPass, ActionSkip, ActionBench} THEN e.Action
          ELSE StatusLast(SubSeq(es, 1, Len(es) - 1))

RECURSIVE Status(_)
\* Events.Status
Status(es) ==
  IF es = <<>> THEN StatusNone
  ELSE CASE Head(es).Action = ActionFail -> StatusFail
         [] Head(es).Action = ActionPass -> StatusPass
         [] Head(es).Action = ActionSkip -> StatusSkip
         [] Head(es).Action = ActionBench -> StatusBench
         [] OTHER -> Status(Tail(es))

\* Events.FindFirstByAction: the first event with one of the actions; the
\* result is <<e>>, or <<>> for nil
FindFirstByAction(es, actions) ==
  LET hit == {i \in 1..Len(es) : es[i].Action \in actions}
  IN IF hit = {} THEN <<>> ELSE <<es[CHOOSE i \in hit : \A j \in hit : i <= j]>>

\* sort.SliceStable on fewer than 20 elements is an insertion sort: x is
\* moved left past every element it is less than, up to the first it is not
InsertSorted(s, x, Less(_, _)) ==
  LET stop == {j \in 1..Len(s) : ~Less(x, s[j])}
      p == IF stop = {} THEN 0 ELSE CHOOSE j \in stop : \A i \in stop : j >= i
  IN SubSeq(s, 1, p) \o <<x>> \o SubSeq(s, p + 1, Len(s))

SliceStable(s, Less(_, _)) ==
  LET f[i \in 0..Len(s)] == IF i = 0 THEN <<>> ELSE InsertSorted(f[i - 1], s[i], Less)
  IN f[Len(s)]

TimeBefore(a, b) == a.Time < b.Time

\* Events.SortByTime
SortByTime(es) == SliceStable(es, TimeBefore)

\* Events.Compact: whether the event e of the sequence es is dropped
Uninteresting(e, failedAt, skippedAt, passedAt) ==
  LET output == TrimLeft(e.Output)
      outputWS == TrimSpace(e.Output)
  IN \/ e.Action = "run"
     \/ e.Action = "cont"
     \/ e.Action = "pause"
     \/ /\ e.Action = "output"
        /\ e.Test # <<>>
        /\ \/ output = <<"=== RUN   ">> \o e.Test \o <<"\n">>
           \/ output = <<"=== CONT  ">> \o e.Test \o <<"\n">>
           \/ output = <<"=== PAUSE ">> \o e.Test \o <<"\n">>
           \/ output = <<"--- FAIL: ">> \o e.Test \o <<" (">> \o Fmt2(failedAt) \o <<"s)", "\n">>
           \/ output = <<"--- SKIP: ">> \o e.Test \o <<" (">> \o Fmt2(skippedAt) \o <<"s)", "\n">>
           \/ output = <<"--- PASS: ">> \o e.Test \o <<" (">> \o Fmt2(passedAt) \o <<"s)", "\n">>
     \/ /\ e.Action = "output"
        /\ e.Package # <<>>
        /\ e.Test = <<>>
        /\ \/ HasPrefix(output, <<"ok", " ", " ", "\t">> \o e.Package)
           \/ HasSuffix(output, <<"[no test files]", "\n">>)
           \/ output = <<"ok", " ", " ", " ">> \o e.Package \o <<"\n">>
           \/ output = <<"PASS", "\n">>
           \/ output = <<"FAIL", "\n">>
           \/ output = <<"testing: warning: no tests to run", "\n">>
           \/ HasPrefix(outputWS, <<"FAIL", "\t">> \o e.Package \o <<"\t">>)
           \/ HasPrefix(outputWS, <<"coverage:">>) /\ HasSuffix(outputWS, <<"of statements">>)

ElapsedOf(found) == IF found = <<>> THEN 0 ELSE found[1].Elapsed

\* a compaction that puts the events it keeps in the order of their times
CompactByTime(es) ==
  LET passedAt == ElapsedOf(FindFirstByAction(es, {ActionPass}))
      failedAt == ElapsedOf(FindFirstByAction(es, {ActionFail}))
      skippedAt == ElapsedOf(FindFirstByAction(es, {ActionSkip}))
  IN SortByTime(SelectSeq(es, LAMBDA e : ~Uninteresting(e, failedAt, skippedAt, passedAt)))

\* Events.Compact
Compact(es) ==
  LET passedAt == ElapsedOf(FindFirstByAction(es, {ActionPass}))
      failedAt == ElapsedOf(FindFirstByAction(es, {ActionFail}))
      skippedAt == ElapsedOf(FindFirstByAction(es, {ActionSkip}))
  IN SelectSeq(es, LAMBDA e : ~Uninteresting(e, failedAt, skippedAt, passedAt))

\* Events.IsPackageWithoutTest
IsPackageWithoutTest(es) ==
  \E i \in 1..Len(es) :
    /\ es[i].Action = "output"
    /\ es[i].Package # <<>>
    /\ es[i].Test = <<>>
    /\ HasSuffix(TrimLeft(es[i].Output), <<"[no test files]", "\n">>)

\* the test of Events.FindCoverage on a trimmed output
IsCoverageLine(o) ==
  HasPrefix(o, <<"coverage:", " ">>) /\ HasSuffix(o, <<" ", "of statements">>)

\* an extraction that leaves the blanks around the percentage
FindCoverageUntrimmed(es) ==
  IF Len(es) = 0 THEN <<>>
  ELSE IF es[1].Package = <<>> \/ es[1].Test # <<>> THEN <<>>
  ELSE LET hit == {i \in 1..Len(es) :
                     es[i].Action = ActionOutput /\ IsCoverageLine(TrimSpace(es[i].Output))}
       IN IF hit = {} THEN <<>>
          ELSE LET o == TrimSpace(es[CHOOSE i \in hit : \A j \in hit : i <= j].Output)
               IN TrimSuffix(TrimPrefix(o, <<"coverage:">>), <<"of statements">>)

\* Events.FindCoverage: "" is <<>>
FindCoverage(es) ==
  IF Len(es) = 0 THEN <<>>
  ELSE IF es[1].Package = <<>> \/ es[1].Test # <<>> THEN <<>>
  ELSE LET hit == {i \in 1..Len(es) :
                     es[i].Action = ActionOutput /\ IsCoverageLine(TrimSpace(es[i].Output))}
       IN IF hit = {} THEN <<>>
          ELSE LET o == TrimSpace(es[CHOOSE i \in hit : \A j \in hit : i <= j].Output)
               IN TrimSpace(TrimSuffix(TrimPrefix(o, <<"coverage:">>), <<"of statements">>))

\* --------------------------------------------------------------- key order

\* the byte of a character that occurs in a package or test name
Byte(c) ==
  CASE c = "-" -> 45 [] c = "." -> 46 [] c = "/" -> 47
    [] c = "0" -> 48 [] c = "1" -> 49 [] c = "2" -> 50 [] c = "3" -> 51
    [] c = "4" -> 52 [] c = "5" -> 53 [] c = "6" -> 54 [] c = "7" -> 55
    [] c = "8" -> 56 [] c = "9" -> 57
    [] c = "T" -> 84 [] c = "a" -> 97 [] c = "b" -> 98

IsDigit(c) == Byte(c) >= 48 /\ Byte(c) <= 57

\* the first index from i on at which s has a character that is not in cs
SkipWhile(s, i, In(_)) ==
  LET stop == {j \in i..Len(s) : ~In(s[j])}
  IN IF stop = {} THEN Len(s) + 1 ELSE CHOOSE j \in stop : \A k \in stop : j <= k

IsZero(c) == c = "0"

RECURSIVE DigitsValue(_)
DigitsValue(ds) ==
  IF ds = <<>> THEN 0
  ELSE 10 * DigitsValue(SubSeq(ds, 1, Len(ds) - 1)) + (Byte(ds[Len(ds)]) - 48)

RECURSIVE NaturalLessFrom(_, _, _, _)
\* natural.Less, from the indices idx1 and idx2 on
NaturalLessFrom(str1, str2, idx1, idx2) ==
  IF idx1 > Len(str1) \/ idx2 > Len(str2) THEN Len(str1) < Len(str2)
  ELSE LET c1 == str1[idx1]
           c2 == str2[idx2]
           dig1 == IsDigit(c1)
           dig2 == IsDigit(c2)
       IN IF dig1 # dig2 THEN dig1
          ELSE IF ~dig1
          THEN IF c1 # c2 THEN Byte(c1) < Byte(c2)
               ELSE NaturalLessFrom(str1, str2, idx1 + 1, idx2 + 1)
          ELSE LET nonZero1 == SkipWhile(str1, idx1, IsZero)
                   nonZero2 == SkipWhile(str2, idx2, IsZero)
                   end1 == SkipWhile(str1, nonZero1, IsDigit)
                   end2 == SkipWhile(str2, nonZero2, IsDigit)
                   nr1 == SubSeq(str1, nonZero1, end1 - 1)
                   nr2 == SubSeq(str2, nonZero2, end2 - 1)
               IN IF Len(nr1) # Len(nr2) THEN Len(nr1) < Len(nr2)
                  ELSE IF nr1 # nr2 THEN DigitsValue(nr1) < DigitsValue(nr2)
                  ELSE IF nonZero1 # nonZero2 THEN nonZero1 < nonZero2
                  ELSE NaturalLessFrom(str1, str2, end1, end2)

\* natural.Less
NaturalLess(str1, str2) == NaturalLessFrom(str1, str2, 1, 1)

\* the less function of OrderedKeys
KeyLess(a, b) ==
  IF a.Package = b.Package /\ (a.Test = <<>> \/ b.Test = <<>>)
  THEN Len(a.Test) > Len(b.Test)
  ELSE NaturalLess(KeyString(a), KeyString(b))

RECURSIVE Enumerations(_)
\* the orders in which ranging over a map may yield the keys S
Enumerations(S) ==
  IF S = {} THEN {<<>>}
  ELSE UNION {{<<k>> \o rest : rest \in Enumerations(S \ {k})} : k \in S}

\* TestStorage.OrderedKeys, when the map yields its keys in the order tks
OrderedKeys(tks) == SliceStable(tks, KeyLess)

\* the lists a call of TestStorage.OrderedKeys may return
OrderedKeysResults(ts) == {OrderedKeys(tks) : tks \in Enumerations(DOMAIN ts)}

\* ------------------------------------------------------------------- store

EmptyStorage == [k \in {} |-> <<>>]

Restrict(ts, keys) == [k \in keys |-> ts[k]]

\* TestStorage.Append
StorageAppend(ts, e) ==
  LET key == Key(e)
      events == IF key \in DOMAIN ts THEN ts[key] ELSE <<>>
  IN [k \in DOMAIN ts \cup {key} |-> IF k = key THEN Append(events, e) ELSE ts[k]]

\* TestStorage.FilterPackageResults
FilterPackageResults(ts) == Restrict(ts, {k \in DOMAIN ts : k.Test # <<>>})

\* TestStorage.FindPackageResults
FindPackageResults(ts) == Restrict(ts, {k \in DOMAIN ts : k.Test = <<>>})

\* TestStorage.FilterKeys
FilterKeys(ts, exclude) == Restrict(ts, {k \in DOMAIN ts : k \notin exclude})

\* TestStorage.FindPackageTests
FindPackageTests(ts, name) == Restrict(ts, {k \in DOMAIN ts : name = k.Package})

\* TestStorage.FindByAction
FindByAction(ts, action) ==
  Restrict(ts, {k \in DOMAIN ts : \E i \in 1..Len(ts[k]) : ts[k][i].Action = action})

\* a filter that looks at the first event of a unit only
FilterFirstEvent(ts, actions) ==
  Restrict(ts, {k \in DOMAIN ts : ~(Len(ts[k]) > 0 /\ ts[k][1].Action \in actions)})

\* TestStorage.FilterAction
FilterAction(ts, actions) ==
  Restrict(ts, {k \in DOMAIN ts : ~\E i \in 1..Len(ts[k]) : ts[k][i].Action \in actions})

\* TestStorage.WithCoverage
WithCoverage(ts) ==
  Restrict(ts, {k \in DOMAIN ts :
                  ~(k.Test # <<>> \/ k.Package = <<>>) /\ FindCoverage(ts[k]) # <<>>})

\* TestStorage.FilterNotests
FilterNotests(ts) == Restrict(ts, {k \in DOMAIN ts : ~IsPackageWithoutTest(ts[k])})

\* TestStorage.CountTests
CountTests(ts) == Cardinality(DOMAIN FilterPackageResults(ts))

\* ----------------------------------------------------------------- detail

V3 == 3

\* a clone that is the receiver itself
CloneShared(es) == [arr |-> es, shared |-> TRUE]

\* A slice value: its elements, and whether it shares the backing array of
\* the receiver es it was made from (a write through it then shows in es).
\* Events.Clone copies, so the clone shares nothing.
Clone(es) == [arr |-> es, shared |-> FALSE]

\* what PrintDetail leaves when it returns before printing
NoDetail(after) == [header |-> FALSE, after |-> after]

\* the line PrintDetail prints for the event e
DetailLine(e, flags) ==
  [prefixed |-> flags.V >= V3,
   action |-> e.Action,
   time |-> e.Time,
   text |-> TrimSuffix(e.Output, <<"\n">>)]

\* the event PrintDetail takes the header from: the first event of the
\* status's action, events[0] when there is none
HeaderEvent(events, status) ==
  LET found == CASE status = StatusFail -> FindFirstByAction(events, {ActionFail})
                 [] status = StatusPass -> FindFirstByAction(events, {ActionPass})
                 [] status = StatusSkip -> FindFirstByAction(events, {ActionSkip})
                 [] status = StatusBench -> FindFirstByAction(events, {ActionBench})
                 [] OTHER -> <<>>
  IN IF found = <<>> THEN events[1] ELSE found[1]

\* Events.PrintDetail, the header and the lines: es is the receiver, after
\* its elements when the call returns, event the event of the header
PrintDetailHeader(es, after, filteredEvents, status, event, flags) ==
  [header |-> TRUE,
   after |-> after,
   status |-> status,
   Package |-> event.Package,
   Test |-> event.Test,
   elapsed |-> IF event.Elapsed >= 10 THEN Fmt2(event.Elapsed) ELSE <<>>,
   coverage |-> FindCoverage(es),
   notests |-> IsPackageWithoutTest(es),
   lines |-> [i \in 1..Len(filteredEvents) |-> DetailLine(filteredEvents[i], flags)]]

\* a PrintDetail that hides a result without lines or of a hidden status
PrintDetailSortedEitherHides(es, after, filteredEvents, events, status, flags) ==
  IF Len(filteredEvents) = 0 \/ StatusesAny(flags.HideEmptyResults, {status})
  THEN NoDetail(after)
  ELSE PrintDetailHeader(es, after, filteredEvents, status, HeaderEvent(events, status), flags)

\* Events.PrintDetail from events.Status() on: events is the sorted slice
PrintDetailSorted(es, after, filteredEvents, events, status, flags) ==
  IF Len(filteredEvents) = 0 /\ StatusesAny(flags.HideEmptyResults, {status})
  THEN NoDetail(after)
  ELSE PrintDetailHeader(es, after, filteredEvents, status, HeaderEvent(events, status), flags)

\* a PrintDetail that keeps the events without text among its lines
PrintDetailUnfiltered(es, events, sorted, flags) ==
  PrintDetailSorted(es,
                    IF events.shared THEN sorted ELSE es,
                    events.arr,
                    sorted, Status(sorted), flags)

\* Events.PrintDetail from filteredEvents on: events is the clone, compacted
\* or not; filteredEvents is built from it before it is sorted in place
PrintDetailFiltered(es, events, sorted, flags) ==
  PrintDetailSorted(es,
                    IF events.shared THEN sorted ELSE es,
                    SelectSeq(events.arr,
                              LAMBDA e : ~(flags.V <= V3 /\ TrimSpace(e.Output) = <<>>)),
                    sorted, Status(sorted), flags)

\* a PrintDetail that leaves the clone in the order of arrival
PrintDetailCompactedUnsorted(es, events, flags) ==
  IF Len(events.arr) = 0 THEN NoDetail(es)
  ELSE PrintDetailFiltered(es, events, events.arr, flags)

\* Events.PrintDetail once the clone is made and compacted
PrintDetailCompacted(es, events, flags) ==
  IF Len(events.arr) = 0 THEN NoDetail(es)
  ELSE PrintDetailFiltered(es, events, SortByTime(events.arr), flags)

\* Events.PrintDetail: what is printed, and (after) the receiver's elements
\* once the call has returned
PrintDetail(es, flags) ==
  IF Len(es) = 0 THEN NoDetail(es)
  ELSE PrintDetailCompacted(es,
                            IF flags.V <= V3
                            THEN [arr |-> Compact(Clone(es).arr), shared |-> FALSE]
                            ELSE Clone(es),
                            flags)

\* what a detail print adds to the output
DetailOutput(key, d) ==
  IF d.header
  THEN <<[kind |-> "detail", key |-> key, status |-> d.status, Package |-> d.Package,
          Test |-> d.Test, elapsed |-> d.elapsed, coverage |-> d.coverage,
          notests |-> d.notests, lines |-> d.lines]>>
  ELSE <<>>

\* ------------------------------------------------------------------- input

\* a decoder whose type errors are not reported
UnmarshalLax(line) ==
  CASE line.kind = "json" -> [err |-> FALSE, e |-> line.ev]
    [] line.kind = "badtype" -> [err |-> FALSE, e |-> line.ev]
    [] OTHER -> [err |-> TRUE, e |-> ZeroEvent]

\* json.Unmarshal of a line into a fresh Event.  A line is a JSON object
\* whose fields decode (kind json), a JSON object with a field of the wrong
\* type (kind badtype: the other fields are decoded, and an error is
\* returned), or no JSON at all (kind garbage: the event stays zero).
Unmarshal(line) ==
  CASE line.kind = "json" -> [err |-> FALSE, e |-> line.ev]
    [] line.kind = "badtype" -> [err |-> TRUE, e |-> line.ev]
    [] OTHER -> [err |-> TRUE, e |-> ZeroEvent]

\* tests[key].PrintDetail(flags) and printed[key] = true on the collected
\* state st = [tests, printed, out, calls], d being what PrintDetail did
Printed(st, tests1, key, d) ==
  [tests |-> [tests1 EXCEPT ![key] = d.after],
   printed |-> st.printed \cup {key},
   out |-> st.out \o DetailOutput(key, d),
   calls |-> Append(st.calls, key)]

\* the scan loop without the test of printed[key]
ScanEventAlways(st, e, flags) ==
  IF HasAction(flags.Results, e.Action)
  THEN Printed(st, StorageAppend(st.tests, e), Key(e),
               PrintDetail(StorageAppend(st.tests, e)[Key(e)], flags))
  ELSE [st EXCEPT !.tests = StorageAppend(st.tests, e)]

\* a scan loop that prints a unit as soon as its derived status is one of
\* the results to show
ScanEventByStatus(st, e, flags) ==
  IF Key(e) \notin st.printed /\ Status(StorageAppend(st.tests, e)[Key(e)]) \in flags.Results
  THEN Printed(st, StorageAppend(st.tests, e), Key(e),
               PrintDetail(StorageAppend(st.tests, e)[Key(e)], flags))
  ELSE [st EXCEPT !.tests = StorageAppend(st.tests, e)]

\* the body of the scan loop after decoding: tests.Append, PrintDetail and
\* printed[key] = true on the collected state st for the event e
ScanEvent(st, e, flags) ==
  IF Key(e) \notin st.printed /\ HasAction(flags.Results, e.Action)
  THEN Printed(st, StorageAppend(st.tests, e), Key(e),
               PrintDetail(StorageAppend(st.tests, e)[Key(e)], flags))
  ELSE [st EXCEPT !.tests = StorageAppend(st.tests, e)]

\* a scan loop that skips a record without package
ScanStepDropsEmptyPackage(st, line, flags) ==
  LET u == Unmarshal(line)
  IN IF u.err \/ u.e.Package = <<>> THEN st ELSE ScanEvent(st, u.e, flags)

\* one turn of the scan loop on the line read
ScanStep(st, line, flags) ==
  LET u == Unmarshal(line)
  IN IF u.err THEN st ELSE ScanEvent(st, u.e, flags)

\* ---------------------------------------------------------------- draining

RECURSIVE NonePass(_, _, _)
\* the loop over noneTests.OrderedKeys(), keys being the list it returned
NonePass(st, keys, flags) ==
  IF keys = <<>> THEN st
  ELSE NonePass(Printed(st, st.tests, Head(keys), PrintDetail(st.tests[Head(keys)], flags)),
                Tail(keys), flags)

\* the elapsed time a summary line shows, <<>> when it shows none
SummaryElapsed(events) ==
  LET fe == FindFirstByAction(events, Range(EndingActions))
  IN IF fe # <<>> /\ fe[1].Elapsed >= 10 THEN Fmt2(fe[1].Elapsed) ELSE <<>>

\* the line of TestStorage.PrintSummary for key; count is the "<N tests>"
\* tag, <<N>> when the line has one: PrintSummary writes none
SummaryLine(ts, key) ==
  [key |-> key,
   elapsed |-> SummaryElapsed(ts[key]),
   count |-> <<>>,
   notests |-> key.Test = <<>> /\ IsPackageWithoutTest(ts[key]),
   coverage |-> IF key.Test = <<>> THEN FindCoverage(ts[key]) ELSE <<>>]

\* TestStorage.PrintSummary, keys being the list OrderedKeys returned
PrintSummary(ts, status, keys) ==
  [kind |-> "summary", status |-> status,
   lines |-> [i \in 1..Len(keys) |-> SummaryLine(ts, keys[i])]]

\* TestStorage.PrintCoverage, keys being the list OrderedKeys returned
PrintCoverage(ts, keys) ==
  LET pkgs == SelectSeq(keys, LAMBDA k : k.Test = <<>>)
  IN [kind |-> "coverage",
      lines |-> [i \in 1..Len(pkgs) |->
                   [coverage |-> FindCoverage(ts[pkgs[i]]), Package |-> pkgs[i].Package]]]

\* a selection whose none group holds test-level units only
SummaryUnitsTestsOnly(tests, status, flags) ==
  IF status = StatusNone
  THEN FilterPackageResults(FilterAction(tests, Range(EndingActions)))
  ELSE LET action == CHOOSE a \in Range(EndingActions) : IsAction(status, a)
           filtered == FindByAction(tests, action)
       IN IF action = ActionSkip /\ flags.V <= V3 THEN FilterNotests(filtered) ELSE filtered

\* the units run selects for the summary of status
SummaryUnits(tests, status, flags) ==
  IF status = StatusNone THEN FilterAction(tests, Range(EndingActions))
  ELSE LET action == CHOOSE a \in Range(EndingActions) : IsAction(status, a)
           filtered == FindByAction(tests, action)
       IN IF action = ActionSkip /\ flags.V <= V3 THEN FilterNotests(filtered) ELSE filtered

RECURSIVE Summaries(_, _, _)
\* what the loop over flags.Summary may print, from the i-th status on
Summaries(tests, flags, i) ==
  IF i > Len(flags.Summary) THEN {<<>>}
  ELSE LET status == flags.Summary[i]
           filtered == SummaryUnits(tests, status, flags)
           here == IF DOMAIN filtered = {} THEN {<<>>}
                   ELSE {<<PrintSummary(filtered, status, keys)>> :
                           keys \in OrderedKeysResults(filtered)}
       IN {h \o rest : h \in here, rest \in Summaries(tests, flags, i + 1)}

\* what the coverage table may print
Coverages(tests, flags) ==
  LET filtered == WithCoverage(tests)
  IN IF flags.coverEnabled /\ DOMAIN filtered # {}
     THEN {<<PrintCoverage(filtered, keys)>> : keys \in OrderedKeysResults(filtered)}
     ELSE {<<>>}

\* the counter line
Counters(tests) ==
  [kind |-> "counters",
   pass |-> CountTests(FindByAction(tests, ActionPass)),
   fail |-> CountTests(FindByAction(tests, ActionFail)),
   none |-> Cardinality(DOMAIN FilterAction(tests, Range(EndingActions))),
   skip |-> CountTests(FindByAction(tests, ActionSkip))]

\* a pass over every unit that was not printed, ended or not
NoneTestsUnprinted(tests, printed) == FilterKeys(tests, printed)

\* the units of the pass over the unprinted units without ending action
NoneTests(tests, printed) == FilterAction(FilterKeys(tests, printed), Range(EndingActions))

\* ------------------------------------------------------------------ inputs

pkgA == <<"a">>
pkgAB == <<"a", "-", "b">>
testT == <<"T">>

Json(e) == [kind |-> "json", ev |-> e]

\* The lines the supervised process may write.
Lines ==
  { Json(Ev(1, ActionRun, pkgA, testT, 0, <<>>)),
    Json(Ev(0, ActionOutput, pkgA, testT, 0, <<"boom", "\n">>)),
    Json(Ev(2, ActionPass, pkgA, testT, 20, <<>>)),
    Json(Ev(1, ActionFail, pkgA, testT, 1500, <<>>)),
    Json(Ev(3, ActionOutput, pkgA, <<>>, 0, <<"ok", " ", " ", "\t", "a", "\t", "0.003s", "\n">>)),
    Json(Ev(1, ActionOutput, pkgAB, <<>>, 0, <<"coverage:", " ", "87.3%", " ", "of statements", "\n">>)),
    Json(Ev(0, "", <<>>, <<>>, 0, <<>>)),
    Json(Ev(1, "", pkgA, <<>>, 0, <<"note", "\n">>)),
    [kind |-> "badtype", ev |-> Ev(0, ActionFail, pkgA, testT, 0, <<>>)],
    [kind |-> "garbage", ev |-> ZeroEvent] }

\* The configurations of a run: the default one, the one with the results
\* pass,fail, the one that the argument -v sets up, and TGO_ALL with -cover
\* at the verbosity of debugging.
Configs ==
  { [V |-> 0, Results |-> {StatusFail, StatusNone}, HideEmptyResults |-> {},
     Summary |-> <<StatusFail, StatusNone>>, coverEnabled |-> FALSE],
    [V |-> 0, Results |-> {StatusPass, StatusFail}, HideEmptyResults |-> {},
     Summary |-> <<StatusFail, StatusNone>>, coverEnabled |-> FALSE],
    [V |-> 2, Results |-> {StatusBench, StatusPass, StatusNone, StatusFail},
     HideEmptyResults |-> {StatusBench, StatusPass, StatusNone},
     Summary |-> <<StatusNone, StatusFail>>, coverEnabled |-> FALSE],
    [V |-> 4, Results |-> AllStatuses, HideEmptyResults |-> {},
     Summary |-> <<StatusBench, StatusPass, StatusSkip, StatusNone, StatusFail>>,
     coverEnabled |-> TRUE] }

\* the lines that decode into an Event
WellFormed(line) == line.kind = "json"

\* ------------------------------------------------------------------- state

VARIABLES
  flags,       \* the configuration of the run
  pc,          \* where run is: start, scan, drain, wait, done
  input,       \* the lines the scanner has returned so far
  tests,       \* the store: key -> events
  printed,     \* the keys marked printed
  out,         \* what has been written to standard output
  calls,       \* the keys PrintDetail has been called for, in order
  scanErr,     \* scanner.Err() is set
  proc,        \* the supervised process: unstarted, running, exited, killed
  code,        \* its exit code, once exited
  stdoutOpen,  \* the process holds the write end of the pipe
  ctxDone,     \* the context of the command is cancelled
  sigAt,       \* where run was when the listener of main took the signal, or none
  timer,       \* the grace period: off, armed, fired
  result,      \* what run returned
  exit         \* the exit code of the program

vars == <<flags, pc, input, tests, printed, out, calls, scanErr, proc, code,
          stdoutOpen, ctxDone, sigAt, timer, result, exit>>

driverVars == <<input, tests, printed, out, calls, scanErr>>

procVars == <<proc, code, stdoutOpen>>

Pending == [kind |-> "pending", code |-> 0]
Nil == [kind |-> "nil", code |-> 0]
OtherError == [kind |-> "error", code |-> 0]
ExitError(n) == [kind |-> "ExitError", code |-> n]

Collected == [tests |-> tests, printed |-> printed, out |-> out, calls |-> calls]

Init ==
  /\ flags \in Configs
  /\ pc = "start"
  /\ input = <<>>
  /\ tests = EmptyStorage
  /\ printed = {}
  /\ out = <<>>
  /\ calls = <<>>
  /\ scanErr = FALSE
  /\ proc = "unstarted"
  /\ code = 0
  /\ stdoutOpen = FALSE
  /\ ctxDone = FALSE
  /\ sigAt = "none"
  /\ timer = "off"
  /\ result = Pending
  /\ exit = -1

\* ----------------------------------------------------------------- actions

\* cmd.Wait: an *exec.ExitError when the process did not succeed (Exited
\* tells an exit code from a signal), the error of the context when the
\* process succeeded after it was signalled, nil otherwise
CmdWait(p, c, interrupted) ==
  IF p = "killed" THEN [kind |-> "exec.ExitError", Exited |-> FALSE, ExitCode |-> -1]
  ELSE IF c # 0 THEN [kind |-> "exec.ExitError", Exited |-> TRUE, ExitCode |-> c]
  ELSE IF interrupted THEN [kind |-> "context", Exited |-> FALSE, ExitCode |-> 0]
  ELSE [kind |-> "nil", Exited |-> FALSE, ExitCode |-> 0]

\* run returning the error of cmd.Wait as it is
RunReturnAsIs(cmdErr) == IF cmdErr.kind = "nil" THEN Nil ELSE OtherError

\* what run returns for the error of cmd.Wait
RunReturn(cmdErr) ==
  IF cmdErr.kind = "exec.ExitError" /\ cmdErr.Exited
  THEN ExitError(cmdErr.ExitCode)
  ELSE Nil

\* main, when run has returned err
MainExit(err) == IF err.kind = "ExitError" THEN err.code ELSE IF err.kind = "nil" THEN 0 ELSE 1

\* cmd.Start succeeds; the banner is printed
Start ==
  /\ pc = "start"
  /\ ~ctxDone
  /\ pc' = "scan"
  /\ proc' = "running"
  /\ stdoutOpen' = TRUE
  /\ out' = Append(out, [kind |-> "banner"])
  /\ UNCHANGED <<flags, input, tests, printed, calls, scanErr, code, ctxDone, sigAt,
                 timer, result, exit>>

\* cmd.Start fails (always so when the context is already cancelled): run
\* returns the error and main exits with 1
StartFail ==
  /\ pc = "start"
  /\ pc' = "done"
  /\ result' = OtherError
  /\ exit' = MainExit(OtherError)
  /\ ctxDone' = TRUE
  /\ out' = Append(out, [kind |-> "error"])
  /\ UNCHANGED <<flags, input, tests, printed, calls, scanErr, procVars, sigAt, timer>>

\* scanner.Scan returns a line: one turn of the scan loop
ScanLine(line) ==
  /\ pc = "scan"
  /\ Len(input) < MaxLines
  /\ input' = Append(input, line)
  /\ \E st \in {ScanStep(Collected, line, flags)} :
        /\ tests' = st.tests
        /\ printed' = st.printed
        /\ out' = st.out
        /\ calls' = st.calls
  /\ UNCHANGED <<flags, pc, scanErr, procVars, ctxDone, sigAt, timer, result, exit>>

\* scanner.Scan returns false at the end of the stream
ScanEOF ==
  /\ pc = "scan"
  /\ ~stdoutOpen
  /\ pc' = "drain"
  /\ UNCHANGED <<flags, driverVars, procVars, ctxDone, sigAt, timer, result, exit>>

\* a read error after which run goes to cmd.Wait at once
ScanErrorSkipsDrain ==
  /\ pc = "scan"
  /\ Len(input) < MaxLines
  /\ scanErr' = TRUE
  /\ pc' = "wait"
  /\ UNCHANGED <<flags, input, tests, printed, out, calls, procVars, ctxDone, sigAt,
                 timer, result, exit>>

\* scanner.Scan returns false with an error (a line longer than its buffer)
ScanError ==
  /\ pc = "scan"
  /\ Len(input) < MaxLines
  /\ scanErr' = TRUE
  /\ pc' = "drain"
  /\ UNCHANGED <<flags, input, tests, printed, out, calls, procVars, ctxDone, sigAt,
                 timer, result, exit>>

\* run from the end of the scan loop up to cmd.Wait: the pass over the units
\* without ending action, the summaries, the coverage table, the counter
\* line, the report of a read error, and the start of the grace period
Drain ==
  /\ pc = "drain"
  /\ IF DOMAIN tests # {}
     THEN \E keys \in IF StatusesAny(flags.Results, {StatusNone})
                      THEN OrderedKeysResults(NoneTests(tests, printed))
                      ELSE {<<>>} :
            \E st \in {NonePass(Collected, keys, flags)} :
               \E sums \in Summaries(st.tests, flags, 1), cov \in Coverages(st.tests, flags) :
                 /\ tests' = st.tests
                 /\ printed' = st.printed
                 /\ calls' = st.calls
                 /\ out' = st.out \o sums \o cov \o <<Counters(st.tests)>>
                              \o IF scanErr THEN <<[kind |-> "readerror"]>> ELSE <<>>
     ELSE /\ out' = out \o IF scanErr THEN <<[kind |-> "readerror"]>> ELSE <<>>
          /\ UNCHANGED <<tests, printed, calls>>
  /\ timer' = "armed"
  /\ pc' = "wait"
  /\ UNCHANGED <<flags, input, scanErr, procVars, ctxDone, sigAt, result, exit>>

\* cmd.Wait returns, run returns, main exits (and its goroutines with it).
\* interrupted: the command had signalled the process for the cancelled
\* context before Wait collected it.
WaitReturn ==
  /\ pc = "wait"
  /\ proc \in {"exited", "killed"}
  /\ \E interrupted \in {FALSE} \cup {b \in {TRUE} : ctxDone} :
       LET err == RunReturn(CmdWait(proc, code, interrupted))
       IN /\ result' = err
          /\ exit' = MainExit(err)
  /\ ctxDone' = TRUE
  /\ timer' = "off"
  /\ pc' = "done"
  /\ UNCHANGED <<flags, driverVars, procVars, sigAt>>

\* the grace period ends: cancel()
TimerFire ==
  /\ timer = "armed"
  /\ pc # "done"
  /\ timer' = "fired"
  /\ ctxDone' = TRUE
  /\ UNCHANGED <<flags, pc, driverVars, procVars, sigAt, result, exit>>

\* the listener of main takes a signal: cancel()
Interrupt ==
  /\ pc # "done"
  /\ sigAt = "none"
  /\ sigAt' = pc
  /\ ctxDone' = TRUE
  /\ UNCHANGED <<flags, pc, driverVars, procVars, timer, result, exit>>

\* a command that is not bound to the context
KillNever == FALSE /\ UNCHANGED vars

\* exec.CommandContext kills the process once the context is cancelled
Kill ==
  /\ ctxDone
  /\ proc = "running"
  /\ proc' = "killed"
  /\ stdoutOpen' = FALSE
  /\ UNCHANGED <<flags, pc, driverVars, code, ctxDone, sigAt, timer, result, exit>>

\* the process exits by itself with the exit code c
ProcExit(c) ==
  /\ proc = "running"
  /\ proc' = "exited"
  /\ code' = c
  /\ stdoutOpen' = FALSE
  /\ UNCHANGED <<flags, pc, driverVars, ctxDone, sigAt, timer, result, exit>>

\* the process closes its standard output and keeps running
ProcCloseStdout ==
  /\ proc = "running"
  /\ stdoutOpen
  /\ stdoutOpen' = FALSE
  /\ UNCHANGED <<flags, pc, driverVars, proc, code, ctxDone, sigAt, timer, result, exit>>

Next ==
  \/ Start
  \/ StartFail
  \/ \E line \in Lines : ScanLine(line)
  \/ ScanEOF
  \/ ScanError
  \/ Drain
  \/ WaitReturn
  \/ TimerFire
  \/ Interrupt
  \/ Kill
  \/ \E c \in 0..MaxExit : ProcExit(c)
  \/ ProcCloseStdout

Spec == Init /\ [][Next]_vars

\* The scheduling of the program: the scanner reaches the end of a stream
\* whose write end is closed, run goes on from the scan loop to cmd.Wait
\* (Drain is enabled whenever pc is "drain" and is the only step that leaves
\* it, so that its weak fairness is that pc is not "drain" for ever), the
\* command kills the process of a cancelled context, the grace period ends,
\* and cmd.Wait returns once the process is gone.  Nothing is assumed of the
\* process or of the signal.
SpecLive ==
  /\ Init
  /\ [][Next]_vars
  /\ WF_vars(ScanEOF)
  /\ []<>(pc # "drain")
  /\ WF_vars(Kill)
  /\ WF_vars(TimerFire)
  /\ WF_vars(WaitReturn)

\* ------------------------------------------------- the store on its own
\* TestStorage and Events exercised through their methods, in any order,
\* on the events below.

StorageEvents ==
  { Ev(1, ActionRun, pkgA, testT, 0, <<>>),
    Ev(1, ActionOutput, pkgA, testT, 0, <<"=== RUN   ", "T", "\n">>),
    Ev(0, ActionOutput, pkgA, testT, 0, <<"boom", "\n">>),
    Ev(2, ActionOutput, pkgA, testT, 0, <<"--- PASS: ", "T", " (", "0", ".", "0", "2", "s)", "\n">>),
    Ev(2, ActionPass, pkgA, testT, 20, <<>>),
    Ev(1, ActionFail, pkgA, testT, 1500, <<>>),
    Ev(3, ActionOutput, pkgA, <<>>, 0, <<"ok", " ", " ", "\t", "a", "\t", "0.003s", "\n">>),
    Ev(3, ActionPass, pkgA, <<>>, 3, <<>>),
    Ev(1, ActionOutput, pkgAB, <<>>, 0, <<"coverage:", " ", "87.3%", " ", "of statements", "\n">>),
    Ev(2, ActionSkip, pkgAB, <<>>, 0, <<>>) }

RECURSIVE SumLen(_, _)
SumLen(ts, keys) ==
  IF keys = {} THEN 0
  ELSE LET k == CHOOSE k \in keys : TRUE IN Len(ts[k]) + SumLen(ts, keys \ {k})

\* the number of events in the store
Size(ts) == SumLen(ts, DOMAIN ts)

InitStorage ==
  /\ flags \in Configs
  /\ pc = "storage"
  /\ input = <<>>
  /\ tests = EmptyStorage
  /\ printed = {}
  /\ out = <<>>
  /\ calls = <<>>
  /\ scanErr = FALSE
  /\ proc = "unstarted"
  /\ code = 0
  /\ stdoutOpen = FALSE
  /\ ctxDone = FALSE
  /\ sigAt = "none"
  /\ timer = "off"
  /\ result = Pending
  /\ exit = -1

restVars == <<flags, pc, input, printed, scanErr, proc, code, stdoutOpen, ctxDone,
              sigAt, timer, result, exit>>

\* tests.Append(e)
DoAppend(e) ==
  /\ Size(tests) < MaxEvents
  /\ tests' = StorageAppend(tests, e)
  /\ out' = <<>>
  /\ calls' = <<>>
  /\ UNCHANGED restVars

\* tests[key].PrintDetail(flags); out is what it printed
DoPrintDetail(key) ==
  /\ \E d \in {PrintDetail(tests[key], flags)} :
        /\ tests' = [tests EXCEPT ![key] = d.after]
        /\ out' = DetailOutput(key, d)
  /\ calls' = <<key>>
  /\ UNCHANGED restVars

\* tests.OrderedKeys(); out is the list returned
DoOrderedKeys ==
  /\ \E keys \in OrderedKeysResults(tests) : out' = <<[kind |-> "keys", keys |-> keys]>>
  /\ calls' = <<>>
  /\ UNCHANGED <<tests, restVars>>

\* tests.FilterAction(actions...); out is the store returned
DoFilterAction(actions) ==
  /\ out' = <<[kind |-> "FilterAction", actions |-> actions,
               store |-> FilterAction(tests, actions)]>>
  /\ calls' = <<>>
  /\ UNCHANGED <<tests, restVars>>

\* tests.FindByAction(action); out is the store returned
DoFindByAction(action) ==
  /\ out' = <<[kind |-> "FindByAction", actions |-> {action},
               store |-> FindByAction(tests, action)]>>
  /\ calls' = <<>>
  /\ UNCHANGED <<tests, restVars>>

NextStorage ==
  \/ \E e \in StorageEvents : DoAppend(e)
  \/ \E key \in DOMAIN tests : DoPrintDetail(key)
  \/ DoOrderedKeys
  \/ \E actions \in {{ActionFail}, {ActionPass}, Range(EndingActions)} : DoFilterAction(actions)
  \/ \E action \in {ActionFail, ActionPass} : DoFindByAction(action)

SpecStorage == InitStorage /\ [][NextStorage]_vars

\* ------------------------------------------------------------------ claims

\* the events of the well-formed lines read so far, in arrival order
Decoded == LET good == SelectSeq(input, WellFormed) IN [i \in 1..Len(good) |-> good[i].ev]

\* the details printed for key
DetailsOf(key) == SelectSeq(out, LAMBDA o : o.kind = "detail" /\ o.key = key)

\* C1: PrintDetail is called at most once for a key in a run, during the
\* scan or in the pass over the units without ending action, so that at most
\* one detail is printed for a key; and a key it was called for is marked
\* printed.
C1_PrintedAtMostOnce ==
  /\ \A i, j \in 1..Len(calls) : calls[i] = calls[j] => i = j
  /\ \A key \in DOMAIN tests : Len(DetailsOf(key)) <= 1
  /\ Range(calls) = printed

\* C1: a key is marked printed and a later event of a requested result has
\* arrived for it
C1_Witness ==
  \E key \in printed :
    /\ Len(tests[key]) >= 2
    /\ HasAction(flags.Results, tests[key][1].Action)
    /\ HasAction(flags.Results, tests[key][2].Action)
    /\ Len(DetailsOf(key)) = 1

\* the status of the first event of es with an ending action
FirstEnding(es) ==
  LET hit == {i \in 1..Len(es) : es[i].Action \in Range(EndingActions)}
  IN IF hit = {} THEN StatusNone
     ELSE es[CHOOSE i \in hit : \A j \in hit : i <= j].Action

\* C2: the status of a unit is the status of the first event of its
\* sequence whose action is fail, pass, skip or bench, and none without such
\* an event; once a unit has a status other than none, no step (an append
\* among them) changes it.
C2_StatusIsFirstEnding ==
  /\ [](\A key \in DOMAIN tests : Status(tests[key]) = FirstEnding(tests[key]))
  /\ [][\A key \in DOMAIN tests :
          Status(tests[key]) # StatusNone =>
            key \in DOMAIN tests' /\ Status(tests'[key]) = Status(tests[key])]_vars

\* C2: a unit that passed and then received a fail event
C2_Witness ==
  \E key \in DOMAIN tests :
    /\ Len(tests[key]) >= 2
    /\ tests[key][1].Action = ActionPass
    /\ tests[key][2].Action = ActionFail
    /\ Status(tests[key]) = StatusPass

\* the events of key among the decoded ones, in arrival order
ArrivalsOf(key) == SelectSeq(Decoded, LAMBDA e : Key(e) = key)

\* C3: in every state of a run the store holds, for each key, exactly the
\* decoded events of that key in arrival order.
C3_StoreIsArrivalOrder ==
  /\ DOMAIN tests = {Key(e) : e \in Range(Decoded)}
  /\ \A key \in DOMAIN tests : tests[key] = ArrivalsOf(key)

\* C3: PrintDetail has sorted, without compaction, the events of a unit that
\* arrived out of the order of their times
C3_Witness ==
  \E key \in Range(calls) :
    /\ flags.V > V3
    /\ SortByTime(tests[key]) # tests[key]
    /\ Status(tests[key]) = StatusNone
    /\ Len(DetailsOf(key)) = 1

RECURSIVE IsSubsequence(_, _)
\* a is b with some elements left out
IsSubsequence(a, b) ==
  IF a = <<>> THEN TRUE
  ELSE IF b = <<>> THEN FALSE
  ELSE IF Head(a) = Head(b) THEN IsSubsequence(Tail(a), Tail(b))
  ELSE IsSubsequence(a, Tail(b))

\* the lines PrintDetail prints for the events es without filtering
AllLines(es) == [i \in 1..Len(es) |-> DetailLine(es[i], flags)]

\* C4: Compact returns a subsequence of the events it is given; and above
\* verbosity 3 PrintDetail prints a line for every event of the unit, in the
\* order of the sequence.
C4_CompactIsSubsequence ==
  /\ \A key \in DOMAIN tests : IsSubsequence(Compact(tests[key]), tests[key])
  /\ (flags.V > 3 /\ calls # <<>>) =>
       /\ Len(out) = 1
       /\ out[1].key = calls[1]
       /\ out[1].lines = AllLines(tests[calls[1]])

\* C4: PrintDetail has printed, above verbosity 3, a unit that Compact
\* would have shortened
C4_Witness ==
  /\ flags.V > 3
  /\ calls # <<>>
  /\ Len(out) = 1
  /\ Len(Compact(tests[calls[1]])) < Len(tests[calls[1]])
  /\ Len(Compact(tests[calls[1]])) > 0

\* C5: every call of OrderedKeys on a store returns the same list, whatever
\* the order in which the map yields its keys, the less function being a
\* strict total order on the keys of the store: irreflexive, transitive and
\* deciding every pair of distinct keys.
C5_OrderedKeysDeterministic ==
  /\ \A r1, r2 \in OrderedKeysResults(tests) : r1 = r2
  /\ \A a \in DOMAIN tests : ~KeyLess(a, a)
  /\ \A a, b, c \in DOMAIN tests : KeyLess(a, b) /\ KeyLess(b, c) => KeyLess(a, c)
  /\ \A a, b \in DOMAIN tests : a # b => (KeyLess(a, b) \/ KeyLess(b, a))

\* C6: in every list OrderedKeys may return, the key of a package comes
\* after the key of every test of that package.
C6_PackageAfterItsTests ==
  \A keys \in OrderedKeysResults(tests) :
    \A i, j \in 1..Len(keys) :
      (keys[i].Package = keys[j].Package /\ keys[i].Test = <<>> /\ keys[j].Test # <<>>)
        => j < i

\* the actions of the events that occur
ActionsUsed == {ActionRun, ActionOutput, ActionPass, ActionFail, ActionSkip, ActionBench}

\* C7: FilterAction applied twice yields what it yields applied once; for
\* an action, the units FindByAction keeps and the units FilterAction keeps
\* are disjoint and together are all units of the store, a kept unit having
\* the sequence it has in the store.
C7_FilterIdempotentAndComplement ==
  /\ \A actions \in SUBSET ActionsUsed :
       FilterAction(FilterAction(tests, actions), actions) = FilterAction(tests, actions)
  /\ \A a \in ActionsUsed :
       LET found == FindByAction(tests, a)
           filtered == FilterAction(tests, {a})
       IN /\ DOMAIN found \cap DOMAIN filtered = {}
          /\ DOMAIN found \cup DOMAIN filtered = DOMAIN tests
          /\ \A key \in DOMAIN found : found[key] = tests[key]
          /\ \A key \in DOMAIN filtered : filtered[key] = tests[key]

\* C7: FilterAction has kept some units of the store and dropped a unit
\* whose first event is not of the actions
C7_Witness ==
  /\ Len(out) = 1
  /\ out[1].kind = "FilterAction"
  /\ DOMAIN out[1].store # {}
  /\ \E key \in DOMAIN tests \ DOMAIN out[1].store : tests[key][1].Action \notin out[1].actions

\* C8: when the supervised process has exited with the code N, run returns
\* ExitError(N) and the program exits with N if N is not zero, and run
\* returns nil if N is zero, whether or not the signal or the end of the
\* grace period came before.
C8_ExitStatusReported ==
  (pc = "done" /\ proc = "exited") =>
    IF code # 0 THEN result = ExitError(code) /\ exit = code
    ELSE result = Nil /\ exit = 0

\* C8: the process exited with a code other than zero after the signal had
\* cancelled the context, and run has returned
C8_Witness ==
  /\ pc = "done"
  /\ proc = "exited"
  /\ code = MaxExit
  /\ sigAt = "scan"
  /\ exit = MaxExit

\* the counter line has been printed
CountersPrinted == \E i \in 1..Len(out) : out[i].kind = "counters"

\* C9 as claimed: a run that took the signal during the scan returns nil.
C9_InterruptedRunReturnsNil ==
  (pc = "done" /\ sigAt = "scan") => result = Nil

\* C9: when the signal is taken during the scan, the context is cancelled,
\* run prints the counter line for a store that is not empty, and run
\* returns: nil, unless the process had exited by itself with a code N other
\* than zero, in which case it returns ExitError(N); whenever run waits for
\* the process, it returns.
C9_InterruptedRunReturns ==
  /\ [](sigAt # "none" => ctxDone)
  /\ []((pc = "done" /\ sigAt = "scan") =>
          /\ (DOMAIN tests # {} => CountersPrinted)
          /\ IF proc = "exited" /\ code # 0 THEN result = ExitError(code)
             ELSE result = Nil)
  /\ (sigAt = "scan") ~> (pc = "done")
  /\ (pc = "wait") ~> (pc = "done")

\* C9: the signal was taken during the scan while the process was running,
\* the process was killed, and run has drained a store that is not empty and
\* returned nil
C9_Witness ==
  /\ pc = "done"
  /\ sigAt = "scan"
  /\ proc = "killed"
  /\ DOMAIN tests # {}
  /\ CountersPrinted
  /\ result = Nil

RECURSIVE Replay(_, _)
\* the scan loop run on the events es from the collected state st
Replay(st, es) ==
  IF es = <<>> THEN st ELSE Replay(ScanEvent(st, Head(es), flags), Tail(es))

\* what run has collected when the scan loop begins
Begin == [tests |-> EmptyStorage, printed |-> {}, out |-> <<[kind |-> "banner"]>>, calls |-> <<>>]

\* C10: a line that does not decode leaves the store, the printed keys and
\* the output as they are and the scan goes on; during the scan, what run has
\* collected and printed is what the scan loop yields on the well-formed
\* lines alone.
C10_MalformedLineSkipped ==
  /\ [](pc = "scan" => Collected = Replay(Begin, Decoded))
  /\ [][(pc = "scan" /\ input' # input /\ ~WellFormed(input'[Len(input')])) =>
          (pc' = "scan" /\ UNCHANGED <<tests, printed, out, calls>>)]_vars

\* C10: a line that did not decode was followed by a well-formed line whose
\* event was appended and printed
C10_Witness ==
  /\ pc = "scan"
  /\ Len(input) = 2
  /\ ~WellFormed(input[1])
  /\ WellFormed(input[2])
  /\ calls = <<Key(input[2].ev)>>
  /\ Len(out) = 2

\* the number of counter lines printed
CounterLines == Cardinality({i \in 1..Len(out) : out[i].kind = "counters"})

\* run is past the draining of a process it had started
Drained == pc \in {"wait", "done"} /\ proc # "unstarted"

\* C11 as claimed: once the scan has ended and run is past the draining, the
\* counter line has been printed exactly once, whatever the stream was.
C11_CounterLineAlways == Drained => CounterLines = 1

\* C11: the scan loop is left for the draining only, at the end of the
\* stream as on a read error; no counter line is printed before; once run is
\* past the draining the counter line has been printed exactly once when the
\* store is not empty, and not at all when the store is empty.
C11_CounterLineOnceIfAnyUnit ==
  /\ [][(pc = "scan" /\ pc' # "scan") => pc' = "drain"]_vars
  /\ [][(pc = "drain" /\ pc' # "drain") => pc' = "wait"]_vars
  /\ [](~Drained => CounterLines = 0)
  /\ [](Drained => CounterLines = IF DOMAIN tests # {} THEN 1 ELSE 0)

\* C11: the scan ended on a read error with a unit in the store, and run has
\* drained and printed the counter line and the report of the error
C11_Witness ==
  /\ pc = "wait"
  /\ scanErr
  /\ DOMAIN tests # {}
  /\ CounterLines = 1
  /\ out[Len(out)].kind = "readerror"

\* the counter line that was printed
CounterLine == out[CHOOSE i \in 1..Len(out) : out[i].kind = "counters"]

\* the number of units among keys whose derived status is status
StatusCount(keys, status) == Cardinality({k \in keys : Status(tests[k]) = status})

\* the units of the store, and its test-level units
AllUnits == DOMAIN tests

TestUnits == {k \in DOMAIN tests : k.Test # <<>>}

\* C12: the counter line shows, for pass, fail, none and skip, the number of
\* units of the store with that derived status, all four counted over the
\* same units (all the units, or the test-level units).
C12_CountersAreStatusCounts ==
  CounterLines = 1 =>
    \E units \in {AllUnits, TestUnits} :
      /\ CounterLine.pass = StatusCount(units, StatusPass)
      /\ CounterLine.fail = StatusCount(units, StatusFail)
      /\ CounterLine.none = StatusCount(units, StatusNone)
      /\ CounterLine.skip = StatusCount(units, StatusSkip)

\* the stream of C13: the test a.T is run and passes after 0.02 s
RunThenPass ==
  << Json(Ev(1, ActionRun, pkgA, testT, 0, <<>>)),
     Json(Ev(2, ActionPass, pkgA, testT, 20, <<>>)) >>

\* pass is shown inline and not hidden when empty, at low verbosity
ShowsPass ==
  /\ flags.V <= V3
  /\ StatusPass \in flags.Results
  /\ StatusPass \notin flags.HideEmptyResults

\* C13: for the stream of a run event and a pass event of 0.02 s for a.T,
\* with pass shown inline and not hidden when empty at low verbosity, exactly
\* one detail is printed for a.T, with the status pass, the elapsed time 0.02
\* and no line.
C13_RunThenPassDetail ==
  (input = RunThenPass /\ ShowsPass) =>
    /\ Len(DetailsOf(Key(RunThenPass[2].ev))) = 1
    /\ DetailsOf(Key(RunThenPass[2].ev))[1].status = StatusPass
    /\ DetailsOf(Key(RunThenPass[2].ev))[1].elapsed = <<"0", ".", "0", "2">>
    /\ DetailsOf(Key(RunThenPass[2].ev))[1].lines = <<>>

\* C13: run has returned after that stream under such a configuration, and
\* the detail of a.T is the only detail printed
C13_Witness ==
  /\ pc = "done"
  /\ input = RunThenPass
  /\ ShowsPass
  /\ calls = <<Key(RunThenPass[2].ev)>>
  /\ Len(DetailsOf(Key(RunThenPass[2].ev))) = 1

\* the units of the store whose derived status is status
UnitsOfStatus(status) == {k \in DOMAIN tests : Status(tests[k]) = status}

\* the summaries printed for status
SummariesOf(status) == SelectSeq(out, LAMBDA o : o.kind = "summary" /\ o.status = status)

\* the keys of the lines of a summary
SummaryKeys(summary) == {summary.lines[i].key : i \in 1..Len(summary.lines)}

\* the draining has run on a store that is not empty
DrainedUnits == Drained /\ DOMAIN tests # {}

\* C14: FilterAction(fail, skip, pass, bench) keeps exactly the units whose
\* derived status is none; and when none is a status of the summaries, the
\* none summary printed by the draining lists exactly these units, package
\* units with output events only among them (no none summary is printed when
\* there is no such unit).
C14_NoneGroupIsStatusNone ==
  /\ DOMAIN FilterAction(tests, Range(EndingActions)) = UnitsOfStatus(StatusNone)
  /\ (DrainedUnits /\ StatusNone \in Range(flags.Summary)) =>
       IF UnitsOfStatus(StatusNone) = {} THEN SummariesOf(StatusNone) = <<>>
       ELSE /\ Len(SummariesOf(StatusNone)) = 1
            /\ SummaryKeys(SummariesOf(StatusNone)[1]) = UnitsOfStatus(StatusNone)

\* C14: the package a received its "ok" output line and no ending action,
\* a test of it passed, and the none summary lists the package only
C14_Witness ==
  /\ DrainedUnits
  /\ StatusNone \in Range(flags.Summary)
  /\ Key(RunThenPass[2].ev) \in UnitsOfStatus(StatusPass)
  /\ Len(SummariesOf(StatusNone)) = 1
  /\ SummaryKeys(SummariesOf(StatusNone)[1]) = {[Package |-> pkgA, Test |-> <<>>]}
  /\ \A i \in 1..Len(tests[[Package |-> pkgA, Test |-> <<>>]]) :
       tests[[Package |-> pkgA, Test |-> <<>>]][i].Action = ActionOutput

\* the text o is "coverage: X of statements" for a percentage X, white space
\* around it aside
IsCoverageOutput(o) ==
  /\ Len(TrimSpace(o)) >= 5
  /\ SubSeq(TrimSpace(o), 1, 2) = <<"coverage:", " ">>
  /\ SubSeq(TrimSpace(o), Len(TrimSpace(o)) - 1, Len(TrimSpace(o))) = <<" ", "of statements">>

\* the percentage X of such a text
CoverageToken(o) == SubSeq(TrimSpace(o), 3, Len(TrimSpace(o)) - 2)

\* the indices of the output events of es of that form
CoverageEvents(es) ==
  {i \in 1..Len(es) : es[i].Action = ActionOutput /\ IsCoverageOutput(es[i].Output)}

\* the percentage of the first such event of a package-level unit, <<>>
\* when there is none or the unit is not package-level
ExpectedCoverage(key, es) ==
  IF key.Test # <<>> \/ key.Package = <<>> \/ CoverageEvents(es) = {} THEN <<>>
  ELSE CoverageToken(es[CHOOSE i \in CoverageEvents(es) : \A j \in CoverageEvents(es) : i <= j].Output)

\* the coverage tables printed
CoverageTables == SelectSeq(out, LAMBDA o : o.kind = "coverage")

\* C15: FindCoverage on a unit gives the percentage of its first output
\* event "coverage: X of statements" when the unit is package-level, and the
\* empty string otherwise; WithCoverage keeps exactly the package-level units
\* with a percentage, and the coverage table of a run with -cover lists
\* these units with it.
C15_CoverageExtraction ==
  /\ \A key \in DOMAIN tests : FindCoverage(tests[key]) = ExpectedCoverage(key, tests[key])
  /\ DOMAIN WithCoverage(tests)
       = {key \in DOMAIN tests : key.Test = <<>> /\ ExpectedCoverage(key, tests[key]) # <<>>}
  /\ (DrainedUnits /\ flags.coverEnabled) =>
       IF DOMAIN WithCoverage(tests) = {} THEN CoverageTables = <<>>
       ELSE /\ Len(CoverageTables) = 1
            /\ {CoverageTables[1].lines[i] : i \in 1..Len(CoverageTables[1].lines)}
                 = {[coverage |-> ExpectedCoverage(key, tests[key]), Package |-> key.Package] :
                      key \in DOMAIN WithCoverage(tests)}

\* C15: a run with -cover has printed the coverage table with 87.3% for the
\* package a-b, whose unit holds the line "coverage: 87.3% of statements"
C15_Witness ==
  /\ DrainedUnits
  /\ flags.coverEnabled
  /\ Len(CoverageTables) = 1
  /\ CoverageTables[1].lines = <<[coverage |-> <<"87.3%">>, Package |-> pkgAB]>>
  /\ DOMAIN tests # DOMAIN WithCoverage(tests)

\* the lines of the summaries printed
SummaryLines == UNION {{out[i].lines[j] : j \in 1..Len(out[i].lines)} :
                         i \in {i \in 1..Len(out) : out[i].kind = "summary"}}

\* the number of test-level units of the package in the store
TestsOfPackage(package) ==
  Cardinality({k \in DOMAIN tests : k.Package = package /\ k.Test # <<>>})

\* C16 as claimed: the summary line of a package-level entry carries the
\* number of test-level units of that package in the store.
C16_PackageLineCarriesCount ==
  \A line \in SummaryLines :
    line.key.Test = <<>> => line.count = <<TestsOfPackage(line.key.Package)>>

\* the events of es that PrintDetail keeps: all above verbosity 3, those
\* Compact keeps otherwise
Kept(es) == IF flags.V <= V3 THEN Compact(es) ELSE es

\* the events of es whose lines PrintDetail prints: those kept, without the
\* ones of blank text up to verbosity 3
Remaining(es) ==
  IF flags.V <= V3
  THEN SelectSeq(Compact(es), LAMBDA e : TrimSpace(e.Output) # <<>>)
  ELSE es

\* PrintDetail was called on the unit calls[1] of the store
DetailCalled == pc = "storage" /\ calls # <<>>

\* C17 as claimed: PrintDetail on a unit prints nothing only when its
\* derived status is one of HideEmptyResults and no line remains after
\* compaction and the filter of blank lines; otherwise it prints one header.
C17_SilentOnlyWhenHidden ==
  DetailCalled =>
    IF Status(tests[calls[1]]) \in flags.HideEmptyResults /\ Remaining(tests[calls[1]]) = <<>>
    THEN TRUE
    ELSE Len(out) = 1 /\ out[1].kind = "detail"

\* C17: PrintDetail on a unit prints nothing when no event is kept, or when
\* no line remains and the status of the kept events in the order of their
\* times is one of HideEmptyResults; in every other case it prints exactly
\* one header, for that unit.
C17_SilentWhenEmptyOrHidden ==
  DetailCalled =>
    IF \/ Kept(tests[calls[1]]) = <<>>
       \/ /\ Remaining(tests[calls[1]]) = <<>>
          /\ Status(SortByTime(Kept(tests[calls[1]]))) \in flags.HideEmptyResults
    THEN out = <<>>
    ELSE Len(out) = 1 /\ out[1].kind = "detail" /\ out[1].key = calls[1]

\* C17: PrintDetail was called on a unit of which an event is kept and no
\* line remains, of a status that is hidden when empty, and printed nothing
C17_Witness ==
  /\ DetailCalled
  /\ Kept(tests[calls[1]]) # <<>>
  /\ Remaining(tests[calls[1]]) = <<>>
  /\ Status(tests[calls[1]]) \in flags.HideEmptyResults
  /\ out = <<>>

\* the units whose derived status has been one of the results to show after
\* one of their events
UnitsEverOfInlineStatus ==
  {k \in DOMAIN tests :
     \E n \in 1..Len(tests[k]) : Status(SubSeq(tests[k], 1, n)) \in flags.Results}

\* the units that have received an event with the ending action of one of
\* the results to show
UnitsWithInlineAction ==
  {k \in DOMAIN tests :
     \E i \in 1..Len(tests[k]) : HasAction(flags.Results, tests[k][i].Action)}

\* C18 as claimed: during the scan the units printed are those whose derived
\* status has been one of the results to show, and a unit whose derived
\* status is not one of them is not printed.
C18_PrintedWhenStatusInline ==
  pc = "scan" =>
    /\ printed = UnitsEverOfInlineStatus
    /\ \A k \in DOMAIN tests : Status(tests[k]) \notin flags.Results => k \notin printed

\* C18: during the scan a unit is printed at its first event whose action is
\* the ending action (fail, pass, skip, bench) of one of the results to show:
\* the units printed are those that have received such an event, and
\* PrintDetail is called when the event read is such an event and no earlier
\* event of its unit was; the status none triggers no print during the scan.
C18_PrintedAtFirstInlineAction ==
  /\ [](pc = "scan" => printed = UnitsWithInlineAction)
  /\ [][(pc = "scan" /\ calls' # calls) =>
          /\ WellFormed(input'[Len(input')])
          /\ calls' = Append(calls, Key(input'[Len(input')].ev))
          /\ HasAction(flags.Results, input'[Len(input')].ev.Action)
          /\ Key(input'[Len(input')].ev) \notin UnitsWithInlineAction]_vars

\* C18: with none among the results to show, the test a.T was not printed
\* at its run event and was printed at its fail event
C18_Witness ==
  /\ pc = "scan"
  /\ StatusNone \in flags.Results
  /\ Len(input) = 2
  /\ WellFormed(input[1])
  /\ input[1].ev.Action = ActionRun
  /\ WellFormed(input[2])
  /\ input[2].ev.Action = ActionFail
  /\ calls = <<Key(input[2].ev)>>
  /\ Key(input[1].ev) = Key(input[2].ev)

\* the calls of PrintDetail for units without ending action, in order
NoneCalls == SelectSeq(calls, LAMBDA k : k \in UnitsOfStatus(StatusNone))

\* C19: no unit without ending action is passed to PrintDetail during the
\* scan; when run has drained a store that is not empty with none among the
\* results to show, PrintDetail has been called exactly once for every unit
\* without ending action, after the calls of the scan and in the order of a
\* list OrderedKeys returns for these units, each is marked printed, and no
\* other unit was passed to PrintDetail by the draining; with none not among
\* the results to show, PrintDetail is never called for such a unit.
C19_NonePassAtDraining ==
  /\ pc = "scan" => NoneCalls = <<>>
  /\ StatusNone \notin flags.Results => NoneCalls = <<>>
  /\ (DrainedUnits /\ StatusNone \in flags.Results) =>
       /\ NoneCalls \in OrderedKeysResults(Restrict(tests, UnitsOfStatus(StatusNone)))
       /\ calls = SelectSeq(calls, LAMBDA k : k \in UnitsWithInlineAction) \o NoneCalls
       /\ UnitsOfStatus(StatusNone) \subseteq printed

\* C19: the draining has passed two units without ending action to
\* PrintDetail, the package a before the package a-b
C19_Witness ==
  /\ DrainedUnits
  /\ StatusNone \in flags.Results
  /\ NoneCalls = <<[Package |-> pkgA, Test |-> <<>>], [Package |-> pkgAB, Test |-> <<>>]>>
  /\ printed = Range(NoneCalls)

\* the summaries printed
SummariesPrinted == SelectSeq(out, LAMBDA o : o.kind = "summary")

\* C20: a unit is listed in the summary of a status only if that is its
\* derived status, so that no unit is listed in the summaries of two
\* statuses.
C20_GroupedByStatus ==
  /\ \A i \in 1..Len(SummariesPrinted) :
       \A k \in SummaryKeys(SummariesPrinted[i]) :
         Status(tests[k]) = SummariesPrinted[i].status
  /\ \A i, j \in 1..Len(SummariesPrinted) :
       i # j => SummaryKeys(SummariesPrinted[i]) \cap SummaryKeys(SummariesPrinted[j]) = {}

\* the times of es do not decrease along the sequence
TimeOrdered(es) == \A i \in 1..(Len(es) - 1) : es[i].Time <= es[i + 1].Time

\* PrintDetail was called on the unit calls[1] of the store and printed its
\* header
HeaderPrinted == DetailCalled /\ out # <<>>

\* C21 as claimed: the status in the header PrintDetail prints for a unit is
\* Events.Status of the unit's stored sequence, in the order of arrival,
\* whatever the events and their times.
C21_HeaderStatusIsArrivalStatus ==
  HeaderPrinted => out[1].status = Status(tests[calls[1]])

\* C21: the status in the header PrintDetail prints for a unit is
\* Events.Status of the unit's stored sequence sorted stably by time,
\* compacted or not; it is Events.Status of the stored sequence itself when
\* the times of the sequence do not decrease.
C21_HeaderStatusIsTimeOrderStatus ==
  HeaderPrinted =>
    /\ out[1].status = Status(SortByTime(tests[calls[1]]))
    /\ TimeOrdered(tests[calls[1]]) => out[1].status = Status(tests[calls[1]])

\* C21: a header was printed for a unit whose events arrived out of the
\* order of their times, with a status that is not the one of the stored
\* sequence, and the compaction had removed an event of the unit
C21_Witness ==
  /\ HeaderPrinted
  /\ ~TimeOrdered(tests[calls[1]])
  /\ out[1].status # Status(tests[calls[1]])
  /\ Len(Kept(tests[calls[1]])) < Len(tests[calls[1]])

\* C22: the lines PrintDetail prints for a unit are in the order of their
\* times, which do not decrease from one line to the next, also when the
\* events arrived out of that order.
C22_LinesInTimeOrder ==
  HeaderPrinted =>
    \A i \in 1..(Len(out[1].lines) - 1) : out[1].lines[i].time <= out[1].lines[i + 1].time

\* the key of a record without package and without test
EmptyKey == [Package |-> <<>>, Test |-> <<>>]

\* the records decoded so far without package
WithoutPackage == SelectSeq(Decoded, LAMBDA e : e.Package = <<>>)

\* the records decoded so far with a package and an action that is none of
\* the eight known ones
Unclassified ==
  SelectSeq(Decoded, LAMBDA e : e.Package # <<>> /\ e.Action \notin ActionsUsed \cup {ActionPause, ActionCont})

\* C23 as claimed: a decoded record without package is dropped, so that no
\* key of the store has an empty package, and a record with a package and an
\* unknown or missing action is appended under its key.
C23_EmptyPackageDropped ==
  /\ \A key \in DOMAIN tests : key.Package # <<>>
  /\ \A i \in 1..Len(Unclassified) :
       /\ Key(Unclassified[i]) \in DOMAIN tests
       /\ Unclassified[i] \in Range(tests[Key(Unclassified[i])])

\* C23: every decoded record is appended under its key, whatever its package
\* and its action: the keys of the store are the keys of the records decoded
\* so far, a record without package is stored under the key of empty
\* package, and a record with a package and an unknown or missing action is
\* stored under its key; only the lines that do not decode are dropped.
C23_EveryDecodedRecordAppended ==
  /\ DOMAIN tests = {Key(Decoded[i]) : i \in 1..Len(Decoded)}
  /\ \A key \in DOMAIN tests : tests[key] = ArrivalsOf(key)
  /\ WithoutPackage # <<>> => EmptyKey \in DOMAIN tests /\ tests[EmptyKey] = WithoutPackage
  /\ \A i \in 1..Len(Unclassified) :
       /\ Key(Unclassified[i]) \in DOMAIN tests
       /\ Unclassified[i] \in Range(tests[Key(Unclassified[i])])

\* C23: a record without package and a record of package a without action
\* have been decoded, and the store holds both, each under its key
C23_Witness ==
  /\ WithoutPackage # <<>>
  /\ Unclassified # <<>>
  /\ EmptyKey \in DOMAIN tests
  /\ [Package |-> pkgA, Test |-> <<>>] \in DOMAIN tests
  /\ Len(input) = 2

====
